---- MODULE Spec2Model ----
(***************************************************************************)
(* cyphernodeconf, lib/app.js: the provisioning run of class App.          *)
(*                                                                         *)
(* One run is  new App()  followed by  app.start(options) :                *)
(*   constructor -> start -> setupConfigArchive -> schema check ->         *)
(*   startWizard (unless noWizard) -> processProps -> writeFiles.          *)
(* The disk (/data/config.7z, /data/client.7z, /data/exitStatus.sh and the *)
(* rendered templates) outlives a run; everything else is rebuilt by the   *)
(* next run.  Every await of the code is a step boundary of the model.     *)
(*                                                                         *)
(* Strings the code looks into (passwords: trimmed, tested for emptiness)  *)
(* are sequences of one-character strings.  Other strings are opaque.      *)
(***************************************************************************)
EXTENDS Integers, Sequences, FiniteSets, TLC

(* ---------------------------------------------------------------------- *)
(* Bounds of the model                                                     *)
(* ---------------------------------------------------------------------- *)

\* Prompt rounds of one password loop the operator may fail before the
\* model stops offering wrong entries.
MaxPrompts == 1

\* Distinct key batches told apart (the secrets of a batch are fresh; the
\* model names a batch by a number that cycles through 1..MaxBatch).
MaxBatch == 2

\* Distinct generated certificates told apart (cycles through 1..MaxSerial).
MaxSerial == 2

(* ---------------------------------------------------------------------- *)
(* Values                                                                  *)
(* ---------------------------------------------------------------------- *)

\* JavaScript's undefined, for a property held as an opaque string or flag.
undefined == "undefined"

\* undefined for a property held as a sequence of characters (no character
\* of the model is longer than one letter, so this is no string).
undefinedStr == <<"undefined">>

\* No key / certificate text stored (the property is undefined).
NoPem == 0

\* The process has not exited.
Running == -1

\* process.exit() without an argument: the exit code is process.exitCode,
\* which is unset, so the process ends with status 0.
ExitDefault == 0

\* process.exit(1)
ExitFailure == 1

\* Normal completion of the event loop.
ExitSuccess == 0

keyIds == << [id |-> "000", groups |-> <<"stats">>],
             [id |-> "001", groups |-> <<"stats", "watcher">>],
             [id |-> "002", groups |-> <<"stats", "watcher", "spender">>],
             [id |-> "003", groups |-> <<"stats", "watcher", "spender", "admin">>] >>

configArchiveFileName == "config.7z"

keyArchiveFileName == "client.7z"

pathProps == << "gatekeeper_datapath", "traefik_datapath", "proxy_datapath",
                "bitcoin_datapath", "lightning_datapath", "otsclient_datapath" >>

PathPropSet == { pathProps[i] : i \in 1..Len(pathProps) }

\* The value of a path property that asks for its paired custom value.
customMarker == "_custom"

(* ---------------------------------------------------------------------- *)
(* Pure functions                                                          *)
(* ---------------------------------------------------------------------- *)

RECURSIVE TrimLeft(_)
TrimLeft(s) == IF s # <<>> /\ Head(s) = " " THEN TrimLeft(Tail(s)) ELSE s

RECURSIVE TrimRight(_)
TrimRight(s) ==
    IF s # <<>> /\ s[Len(s)] = " " THEN TrimRight(SubSeq(s, 1, Len(s) - 1)) ELSE s

\* A filter that trims the start only.
trimFilterStart(input) == TrimLeft(input)

\* trimFilter(input): (input+"").trim()
trimFilter(input) == TrimRight(TrimLeft(input))

\* JavaScript truthiness of a string of characters: undefined and "" are falsy.
TruthyStr(s) == s # undefinedStr /\ s # <<>>

\* JavaScript truthiness of a flag or opaque string property.
Truthy(v) == v # undefined /\ v # "false" /\ v # ""

\* htpasswd(password): the admin credential hash of the password.
htpasswd(password) == <<"$">> \o password

(* ---------------------------------------------------------------------- *)
(* The configuration document (config.data) and lib/config.js              *)
(* ---------------------------------------------------------------------- *)

\* new Config(): the document before anything is loaded or answered.
\* gatekeeper_keys is present from the start (processProps reads its
\* configEntries without a test).
EmptyDoc ==
    [ adminhash                     |-> undefinedStr,
      enablehelp                    |-> undefined,
      gatekeeper_recreatekeys       |-> undefined,
      gatekeeper_recreatecert       |-> undefined,
      gatekeeper_keys               |-> [configEntries |-> <<>>, clientInformation |-> <<>>],
      gatekeeper_sslkey             |-> NoPem,
      gatekeeper_sslcert            |-> NoPem,
      gatekeeper_clientkeyspassword |-> undefined,
      paths                         |-> [p \in PathPropSet |-> undefined],
      customs                       |-> [p \in PathPropSet |-> undefined] ]

\* The properties the schema requires.
RequiredProps == << "gatekeeper_clientkeyspassword", "proxy_datapath" >>

\* data.hasOwnProperty(name), for the names the model looks up by name.
HasOwnProperty(data, name) ==
    IF name = "gatekeeper_clientkeyspassword"
    THEN data.gatekeeper_clientkeyspassword # undefined
    ELSE IF name \in PathPropSet THEN data.paths[name] # undefined
    ELSE FALSE

\* Config.validate: one error of keyword "required" for each required
\* property the document lacks, in schema order.
RECURSIVE RequiredErrors(_, _)
RequiredErrors(data, i) ==
    IF i > Len(RequiredProps) THEN <<>>
    ELSE (IF HasOwnProperty(data, RequiredProps[i])
          THEN <<>>
          ELSE << [keyword |-> "required", missingProperty |-> RequiredProps[i]] >>)
         \o RequiredErrors(data, i + 1)

Validate(data) == RequiredErrors(data, 1)

\* The archive file /data/config.7z as it is when it does not exist.
NoArchive ==
    [exists |-> FALSE, corrupt |-> FALSE, password |-> undefinedStr, data |-> EmptyDoc]

\* Config.deserialize(path, password): fails on a corrupt archive and on a
\* password other than the one the archive was encrypted with; otherwise
\* yields the stored document.
Deserialize(file, password) ==
    IF file.corrupt \/ file.password # password
    THEN [error |-> TRUE, data |-> EmptyDoc]
    ELSE [error |-> FALSE, data |-> file.data]

\* Config.serialize(path, password): the file it writes when it succeeds.
Serialize(data, password) ==
    [exists |-> TRUE, corrupt |-> FALSE, password |-> password, data |-> data]

\* The client key archive /data/client.7z as it is when it does not exist.
\* Of an existing one the model keeps which entries it holds.
NoKeyArchive == [exists |-> FALSE, entries |-> {}]

\* Archive.writeEntry(name, content) on the file, when it succeeds: the file
\* exists afterwards and holds the entry.
WriteEntry(file, name) == [exists |-> TRUE, entries |-> file.entries \cup {name}]

(* ---------------------------------------------------------------------- *)
(* State                                                                   *)
(* ---------------------------------------------------------------------- *)

VARIABLES
    archive,          \* /data/config.7z
    keyArchive,       \* /data/client.7z
    sentinel,         \* /data/exitStatus.sh exists
    rendered,         \* the rendered template files under /data
    pc,               \* where the process is
    options,          \* the options passed to start
    env,              \* process.env
    sessionData,      \* this.sessionData
    config,           \* this.config: data and validateErrors
    prompts,          \* the prompt list startWizard presented
    keyAcc,           \* processProps' configEntries and clientInformation
    nPrompts,         \* failed rounds of the current password loop
    r,                \* setupConfigArchive's r: the answers of the last round
    context,          \* the context the last template was rendered with
    exitCode,         \* the exit status of the process
    asked,            \* the prompts put to the operator in this run
    events,           \* what the run did so far, in order
    disk0             \* the disk as the run found it

vars == << archive, keyArchive, sentinel, rendered, pc, options, env, sessionData,
           config, prompts, keyAcc, nPrompts, r, context, exitCode, asked, events, disk0 >>

\* sessionData before start has filled it.
NoSession ==
    [ configurationPassword           |-> undefinedStr,
      noWizard                        |-> FALSE,
      gatekeeper_clientkeyspassword   |-> undefined,
      gatekeeper_clientkeyspassword_c |-> undefined,
      markProperties                  |-> <<>>,
      cns                             |-> undefined,
      gatekeeper_version              |-> undefined ]

\* No template rendered yet.
NoContext == << >>

NoKeyAcc == [configEntries |-> <<>>, clientInformation |-> <<>>]

\* let r = {}: no answer yet.
NoAnswers ==
    [password0 |-> undefinedStr, password1 |-> undefinedStr, password |-> undefinedStr]

(* ---------------------------------------------------------------------- *)
(* Inputs                                                                  *)
(* ---------------------------------------------------------------------- *)

\* What the operator may type at the prompt for the password of the
\* existing archive, before the filter.
RawPasswords == { <<>>, <<" ">>, <<"a">>, <<" ", "a", " ">>, <<"b">> }

\* What the operator may type at the two prompts for a new password.
RawPasswordPairs ==
    { << <<>>, <<>> >>, << <<"a">>, <<" ">> >>, << <<"a">>, <<"b">> >>,
      << <<"a">>, <<"a">> >>, << <<" ", "a", " ">>, <<"a">> >> }

\* CFG_PASSWORD of the environment.
EnvPasswords == { undefinedStr, <<"a">>, <<"b">> }

\* ApiKey: the record createRandomKey builds for entry i of keyIds in batch b,
\* and its two projections.
ApiKey(b, i) == [id |-> keyIds[i].id, groups |-> keyIds[i].groups, key |-> <<b, i>>]

getConfigEntry(apikey) == apikey

getClientInformation(apikey) == << apikey.id, apikey.key, apikey.groups >>

\* The batch a stored key set belongs to (0: no keys stored).
BatchOf(gatekeeper_keys) ==
    IF gatekeeper_keys.configEntries = <<>> THEN 0
    ELSE gatekeeper_keys.configEntries[1].key[1]

\* randomiseKey draws fresh secrets: a batch other than the stored one.
FreshBatch(data) == (BatchOf(data.gatekeeper_keys) % MaxBatch) + 1

\* Cert.create draws a fresh key pair: a serial other than the stored ones.
FreshSerial(data) ==
    ((IF data.gatekeeper_sslkey > data.gatekeeper_sslcert
      THEN data.gatekeeper_sslkey ELSE data.gatekeeper_sslcert) % MaxSerial) + 1

\* A document an earlier release left in the archive: keys and certificate
\* present, no client key archive password yet, help never answered.
LegacyDoc ==
    [ EmptyDoc EXCEPT
        !.adminhash = htpasswd(<<"a">>),
        !.gatekeeper_keys =
            [ configEntries |-> [i \in 1..Len(keyIds) |-> getConfigEntry(ApiKey(1, i))],
              clientInformation |-> [i \in 1..Len(keyIds) |-> getClientInformation(ApiKey(1, i))] ],
        !.gatekeeper_sslkey = 1,
        !.gatekeeper_sslcert = 1,
        !.paths = [p \in PathPropSet |-> "/data"] ]

LegacyKeyArchive == [exists |-> TRUE, entries |-> {"keys.txt", "cacert.pem"}]

\* The template files that release rendered.
LegacyRendered == { <<"gatekeeper", "api.properties">>, <<"proxy", "env.properties">> }

(* ---------------------------------------------------------------------- *)
(* Initial state: the disk before the first run of this release            *)
(* ---------------------------------------------------------------------- *)

\* The same, from a release that stored the key but no certificate.
LegacyDocNoCert == [LegacyDoc EXCEPT !.gatekeeper_sslcert = NoPem]

\* The disks the first run may find: nothing; what an earlier release left
\* (with or without the sentinel of its last run); an archive that no
\* longer decrypts.
InitDisks ==
    { [archive |-> NoArchive, keyArchive |-> NoKeyArchive, sentinel |-> FALSE,
       rendered |-> {}],
      [archive |-> Serialize(LegacyDoc, <<"a">>), keyArchive |-> LegacyKeyArchive,
       sentinel |-> TRUE, rendered |-> LegacyRendered],
      [archive |-> Serialize(LegacyDoc, <<"a">>), keyArchive |-> LegacyKeyArchive,
       sentinel |-> FALSE, rendered |-> LegacyRendered],
      [archive |-> Serialize(LegacyDocNoCert, <<"a">>), keyArchive |-> LegacyKeyArchive,
       sentinel |-> FALSE, rendered |-> LegacyRendered],
      [archive |-> [Serialize(LegacyDoc, <<"a">>) EXCEPT !.corrupt = TRUE],
       keyArchive |-> LegacyKeyArchive, sentinel |-> FALSE, rendered |-> LegacyRendered] }

Init ==
    /\ \E d \in InitDisks :
          /\ archive = d.archive
          /\ keyArchive = d.keyArchive
          /\ sentinel = d.sentinel
          /\ rendered = d.rendered
          /\ disk0 = d
    /\ pc = "idle"
    /\ options = [noWizard |-> FALSE]
    /\ env = [CFG_PASSWORD |-> undefinedStr, GATEKEEPER_VERSION |-> undefined]
    /\ sessionData = NoSession
    /\ config = [data |-> EmptyDoc, validateErrors |-> <<>>]
    /\ prompts = <<>>
    /\ keyAcc = NoKeyAcc
    /\ nPrompts = 0
    /\ r = NoAnswers
    /\ context = NoContext
    /\ exitCode = Running
    /\ asked = {}
    /\ events = <<>>

(* ---------------------------------------------------------------------- *)
(* Helpers of the actions                                                  *)
(* ---------------------------------------------------------------------- *)

\* Events of one kind in the run so far.
EventsOf(kind) == { i \in 1..Len(events) : events[i][1] = kind }

\* How certificate generation ended in the run so far.
CertOutcome ==
    IF EventsOf("certCreate") = {} THEN "none"
    ELSE LET i == CHOOSE j \in EventsOf("certCreate") : TRUE IN events[i][2]

\* process.exit(code)
Exit(code) ==
    /\ pc' = "exited"
    /\ exitCode' = code

(* ---------------------------------------------------------------------- *)
(* new App()                                                               *)
(* ---------------------------------------------------------------------- *)

\* A new process: the constructor removes /data/exitStatus.sh if it exists.
Constructor(noWizard, cfgPassword) ==
    /\ pc \in {"idle", "done", "exited"}
    /\ disk0' = [archive |-> archive, keyArchive |-> keyArchive, sentinel |-> sentinel,
                 rendered |-> rendered]
    /\ sentinel' = FALSE
    /\ options' = [noWizard |-> noWizard]
    /\ env' = [CFG_PASSWORD |-> cfgPassword, GATEKEEPER_VERSION |-> undefined]
    /\ sessionData' = NoSession
    /\ config' = [data |-> EmptyDoc, validateErrors |-> <<>>]
    /\ prompts' = <<>>
    /\ keyAcc' = NoKeyAcc
    /\ nPrompts' = 0
    /\ r' = NoAnswers
    /\ context' = NoContext
    /\ exitCode' = Running
    /\ asked' = {}
    /\ events' = <<>>
    /\ pc' = "start"
    /\ UNCHANGED << archive, keyArchive, rendered >>

(* ---------------------------------------------------------------------- *)
(* start, up to the call of setupConfigArchive                             *)
(* ---------------------------------------------------------------------- *)

Start ==
    /\ pc = "start"
    /\ sessionData' = [NoSession EXCEPT
                          !.noWizard = options.noWizard,
                          !.gatekeeper_version = IF Truthy(env.GATEKEEPER_VERSION)
                                                 THEN env.GATEKEEPER_VERSION ELSE "latest"]
    /\ pc' = "setupConfigArchive"
    /\ UNCHANGED << archive, keyArchive, sentinel, rendered, options, env, config,
                    prompts, keyAcc, nPrompts, r, context, exitCode, asked, events, disk0 >>

(* ---------------------------------------------------------------------- *)
(* setupConfigArchive                                                      *)
(* ---------------------------------------------------------------------- *)

\* new Config(), the test for the archive file, and the password taken from
\* the environment when the file exists and CFG_PASSWORD is set.
SetupConfigArchive ==
    /\ pc = "setupConfigArchive"
    /\ config' = [data |-> EmptyDoc, validateErrors |-> Validate(EmptyDoc)]
    /\ IF ~archive.exists
       THEN /\ pc' = "newPassword"
            /\ UNCHANGED sessionData
       ELSE IF TruthyStr(env.CFG_PASSWORD)
       THEN /\ sessionData' = [sessionData EXCEPT !.configurationPassword = env.CFG_PASSWORD]
            /\ pc' = "deserialize"
       ELSE /\ pc' = "password"
            /\ UNCHANGED sessionData
    /\ UNCHANGED << archive, keyArchive, sentinel, rendered, options, env, prompts,
                    keyAcc, nPrompts, r, context, exitCode, asked, events, disk0 >>

\* The condition of the loop that asks for a new password twice.
AskAgain(answers) ==
    \/ ~TruthyStr(answers.password0)
    \/ ~TruthyStr(answers.password1)
    \/ answers.password0 # answers.password1

\* One round of the loop that asks for a new password twice.
NewPasswordRound(raw0, raw1) ==
    /\ pc = "newPassword"
    /\ LET answers == [NoAnswers EXCEPT !.password0 = trimFilter(raw0),
                                         !.password1 = trimFilter(raw1)]
           again == AskAgain(answers)
           mismatch == TruthyStr(answers.password0) /\ TruthyStr(answers.password1)
                        /\ answers.password0 # answers.password1
       IN  /\ again => nPrompts < MaxPrompts
           /\ r' = answers
           /\ asked' = asked \cup {"password0", "password1"}
           /\ events' = IF mismatch
                        THEN Append(events, <<"log", "Passwords do not match">>)
                        ELSE events
           /\ IF again
              THEN /\ nPrompts' = nPrompts + 1
                   /\ UNCHANGED << sessionData, pc >>
              ELSE /\ sessionData' = [sessionData EXCEPT
                                         !.configurationPassword = answers.password0]
                   /\ pc' = "adminhash"
                   /\ nPrompts' = 0
    /\ UNCHANGED << archive, keyArchive, sentinel, rendered, options, env, config,
                    prompts, keyAcc, context, exitCode, disk0 >>

\* One round of the loop that asks for the password of the existing archive.
PasswordRound(raw) ==
    /\ pc = "password"
    /\ LET answers == [NoAnswers EXCEPT !.password = trimFilter(raw)]
       IN  /\ ~TruthyStr(answers.password) => nPrompts < MaxPrompts
           /\ r' = answers
           /\ asked' = asked \cup {"password"}
           /\ IF ~TruthyStr(answers.password)
              THEN /\ nPrompts' = nPrompts + 1
                   /\ UNCHANGED << sessionData, pc >>
              ELSE /\ sessionData' = [sessionData EXCEPT
                                         !.configurationPassword = answers.password]
                   /\ pc' = "deserialize"
                   /\ nPrompts' = 0
    /\ UNCHANGED << archive, keyArchive, sentinel, rendered, options, env, config,
                    prompts, keyAcc, context, exitCode, events, disk0 >>

\* An inner catch that logs the error and lets the run go on.
OnDeserializeErrorContinue ==
    /\ pc' = "adminhash"
    /\ UNCHANGED exitCode

\* The inner catch around config.deserialize: it logs the error and calls
\* process.exit() with no argument.
OnDeserializeError == Exit(ExitDefault)

\* config.deserialize, and what follows it inside the try.
DeserializeArchive ==
    /\ pc = "deserialize"
    /\ LET got == Deserialize(archive, sessionData.configurationPassword)
       IN  IF got.error
           THEN /\ OnDeserializeError
                /\ events' = Append(events, <<"deserialize", "failed">>)
                /\ UNCHANGED << config, sessionData >>
           ELSE /\ config' = [data |-> got.data, validateErrors |-> Validate(got.data)]
                /\ sessionData' =
                     IF HasOwnProperty(got.data, "gatekeeper_clientkeyspassword")
                     THEN [sessionData EXCEPT !.gatekeeper_clientkeyspassword_c =
                                                  got.data.gatekeeper_clientkeyspassword]
                     ELSE sessionData
                /\ events' = Append(events, <<"deserialize", "ok">>)
                /\ pc' = "adminhash"
                /\ UNCHANGED exitCode
    /\ UNCHANGED << archive, keyArchive, sentinel, rendered, options, env, prompts,
                    keyAcc, nPrompts, r, context, asked, disk0 >>

\* The admin hash of the password in use goes into the document.
AdminHash ==
    /\ pc = "adminhash"
    /\ config' = [config EXCEPT
                    !.data.adminhash = htpasswd(sessionData.configurationPassword)]
    /\ events' = Append(events, <<"adminhash">>)
    /\ pc' = "schemaCheck"
    /\ UNCHANGED << archive, keyArchive, sentinel, rendered, options, env, sessionData,
                    prompts, keyAcc, nPrompts, r, context, exitCode, asked, disk0 >>

(* ---------------------------------------------------------------------- *)
(* start: the schema check and the choice of the mode                      *)
(* ---------------------------------------------------------------------- *)

\* The missingProperty of every validation error of keyword "required".
RECURSIVE MissingProperties(_)
MissingProperties(errors) ==
    IF errors = <<>> THEN <<>>
    ELSE (IF Head(errors).keyword = "required" /\ Head(errors).missingProperty # undefined
          THEN << Head(errors).missingProperty >>
          ELSE <<>>)
         \o MissingProperties(Tail(errors))

\* A start that gives up only when more than one property is missing.
UnattendedFailOffByOne(session, missingProperties) ==
    session.noWizard /\ Len(missingProperties) > 1

\* Whether start gives up: unattended mode with required properties missing.
UnattendedFail(session, missingProperties) ==
    session.noWizard /\ Len(missingProperties) > 0

SchemaCheck ==
    /\ pc = "schemaCheck"
    /\ LET missingProperties == MissingProperties(config.validateErrors)
       IN  IF UnattendedFail(sessionData, missingProperties)
           THEN /\ Exit(ExitFailure)
                /\ events' = events \o << <<"schemaCheck">>, <<"log", "Unable to migrate">> >>
                /\ UNCHANGED sessionData
           ELSE IF ~sessionData.noWizard
           THEN /\ sessionData' =
                     [sessionData EXCEPT
                        !.gatekeeper_clientkeyspassword =
                            config.data.gatekeeper_clientkeyspassword,
                        !.markProperties =
                            IF Len(missingProperties) > 0 THEN missingProperties ELSE @]
                /\ pc' = "startWizard"
                /\ events' = Append(events, <<"schemaCheck">>)
                /\ UNCHANGED exitCode
           ELSE /\ pc' = "processProps"
                /\ events' = Append(events, <<"schemaCheck">>)
                /\ UNCHANGED << sessionData, exitCode >>
    /\ UNCHANGED << archive, keyArchive, sentinel, rendered, options, env, config,
                    prompts, keyAcc, nPrompts, r, context, asked, disk0 >>

(* ---------------------------------------------------------------------- *)
(* startWizard and the contributors (prompters)                            *)
(* ---------------------------------------------------------------------- *)

\* The contributors in registration order: name, prompt names in declared
\* order, templates.
prompters ==
    << [name |-> "bitcoin",
        prompts |-> <<"bitcoin_datapath", "bitcoin_datapath_custom">>,
        templates |-> <<>>],
       [name |-> "gatekeeper",
        prompts |-> <<"gatekeeper_clientkeyspassword", "gatekeeper_recreatekeys",
                      "gatekeeper_recreatecert", "gatekeeper_datapath",
                      "gatekeeper_datapath_custom">>,
        templates |-> <<"api.properties">>],
       [name |-> "lightning",
        prompts |-> <<"lightning_datapath", "lightning_datapath_custom">>,
        templates |-> <<>>],
       [name |-> "otsclient",
        prompts |-> <<"otsclient_datapath", "otsclient_datapath_custom">>,
        templates |-> <<>>],
       [name |-> "proxy",
        prompts |-> <<"proxy_datapath", "proxy_datapath_custom">>,
        templates |-> <<"env.properties">>],
       [name |-> "traefik",
        prompts |-> <<"traefik_datapath", "traefik_datapath_custom">>,
        templates |-> <<>>] >>

\* m.prompts(this): the prompt specifications of one contributor.
PromptsOf(m) == [i \in 1..Len(m.prompts) |-> [name |-> m.prompts[i], message |-> <<m.prompts[i]>>]]

\* A test that reads indexOf(name) > 0 and so misses the first name.
IsMarkedAfterFirst(markProperties, name) ==
    \E i \in 2..Len(markProperties) : markProperties[i] = name

\* Whether name is in markProperties (indexOf(name) !== -1).
IsMarked(markProperties, name) ==
    \E i \in 1..Len(markProperties) : markProperties[i] = name

\* The marking loop over the prompts of one contributor.
MarkPrompts(newPrompts, markProperties) ==
    IF Len(markProperties) > 0
    THEN [i \in 1..Len(newPrompts) |->
            IF IsMarked(markProperties, newPrompts[i].name)
            THEN [newPrompts[i] EXCEPT !.message = @ \o <<" new option ">>]
            ELSE newPrompts[i]]
    ELSE newPrompts

\* The loop over the contributors: the prompt list handed to the prompt engine.
RECURSIVE CollectPrompts(_, _)
CollectPrompts(i, markProperties) ==
    IF i > Len(prompters) THEN <<>>
    ELSE MarkPrompts(PromptsOf(prompters[i]), markProperties)
         \o CollectPrompts(i + 1, markProperties)

\* What the operator may answer.  recreate flags that are undefined were not
\* asked; custom is the set of path properties answered with the marker, and
\* customValue the values given for their paired properties (undefined: the
\* paired prompt was not asked).
NoCustomValue == [p \in PathPropSet |-> undefined]

WizardAnswers ==
    { [gatekeeper_clientkeyspassword |-> "k1", gatekeeper_recreatekeys |-> undefined,
       gatekeeper_recreatecert |-> undefined, custom |-> {}, customValue |-> NoCustomValue],
      [gatekeeper_clientkeyspassword |-> "k2", gatekeeper_recreatekeys |-> "true",
       gatekeeper_recreatecert |-> "false", custom |-> {}, customValue |-> NoCustomValue],
      [gatekeeper_clientkeyspassword |-> "k1", gatekeeper_recreatekeys |-> "false",
       gatekeeper_recreatecert |-> "true",
       custom |-> {"gatekeeper_datapath", "traefik_datapath", "proxy_datapath"},
       customValue |-> [NoCustomValue EXCEPT !["gatekeeper_datapath"] = "/custom",
                                             !["traefik_datapath"] = ""]] }

\* Object.assign(config.data, props): only the answered names are assigned.
Assign(data, props) ==
    [ data EXCEPT
        !.gatekeeper_clientkeyspassword = props.gatekeeper_clientkeyspassword,
        !.gatekeeper_recreatekeys =
            IF props.gatekeeper_recreatekeys = undefined THEN @
            ELSE props.gatekeeper_recreatekeys,
        !.gatekeeper_recreatecert =
            IF props.gatekeeper_recreatecert = undefined THEN @
            ELSE props.gatekeeper_recreatecert,
        !.paths = [p \in PathPropSet |-> IF p \in props.custom THEN customMarker ELSE "/data"],
        !.customs = [p \in PathPropSet |->
                        IF p \in props.custom /\ props.customValue[p] # undefined
                        THEN props.customValue[p] ELSE @[p]] ]

\* The first prompt of the wizard: enable help?
StartWizardHelp(enablehelp) ==
    /\ pc = "startWizard"
    /\ config' = [config EXCEPT !.data.enablehelp = enablehelp]
    /\ asked' = asked \cup {"enablehelp"}
    /\ pc' = "wizardPrompts"
    /\ UNCHANGED << archive, keyArchive, sentinel, rendered, options, env, sessionData,
                    prompts, keyAcc, nPrompts, r, context, exitCode, events, disk0 >>

\* The prompts of all contributors, asked in one go, and the merge of the
\* answers into the document.
StartWizardPrompts(props) ==
    /\ pc = "wizardPrompts"
    /\ prompts' = CollectPrompts(1, sessionData.markProperties)
    /\ config' = [config EXCEPT !.data = Assign(config.data, props)]
    /\ asked' = asked \cup { prompts'[i].name : i \in 1..Len(prompts') }
    /\ events' = Append(events, <<"answers", IF Assign(config.data, props) = config.data
                                             THEN "same" ELSE "changed">>)
    /\ pc' = "processProps"
    /\ UNCHANGED << archive, keyArchive, sentinel, rendered, options, env, sessionData,
                    keyAcc, nPrompts, r, context, exitCode, disk0 >>

(* ---------------------------------------------------------------------- *)
(* processProps                                                            *)
(* ---------------------------------------------------------------------- *)

\* A test that looks at the flag only.
ShouldRecreateKeysFlagOnly(data) == Truthy(data.gatekeeper_recreatekeys)

\* "creates keys if they don't exist or we say so"
ShouldRecreateKeys(data) ==
    Truthy(data.gatekeeper_recreatekeys) \/ Len(data.gatekeeper_keys.configEntries) = 0

\* A key branch that leaves the flag in the document.
DeleteRecreateKeysForgotten(data) == data

\* The document once the key branch is entered: the flag is deleted.
DeleteRecreateKeys(data) == [data EXCEPT !.gatekeeper_recreatekeys = undefined]

ProcessPropsKeys ==
    /\ pc = "processProps"
    /\ IF ShouldRecreateKeys(config.data)
       THEN /\ config' = [config EXCEPT !.data = DeleteRecreateKeys(config.data)]
            /\ keyAcc' = NoKeyAcc
            /\ pc' = "createRandomKey"
       ELSE /\ pc' = "processCert"
            /\ UNCHANGED << config, keyAcc >>
    /\ UNCHANGED << archive, keyArchive, sentinel, rendered, options, env, sessionData,
                    prompts, nPrompts, r, context, exitCode, asked, events, disk0 >>

\* A loop that stores the lists in the document after every push.
KeysAfterPushEager(gatekeeper_keys, acc, i) == acc

\* gatekeeper_keys of the document after the key of entry i of keyIds was
\* pushed: the document gets the new lists only after the loop.
KeysAfterPush(gatekeeper_keys, acc, i) ==
    IF i = Len(keyIds) THEN acc ELSE gatekeeper_keys

\* One turn of the loop over keyIds (one awaited createRandomKey); the last
\* turn is followed by the assignment of both lists to the document.
CreateRandomKey ==
    /\ pc = "createRandomKey"
    /\ LET i == Len(keyAcc.configEntries) + 1
           apikey == ApiKey(FreshBatch(config.data), i)
           acc == [configEntries |-> Append(keyAcc.configEntries, getConfigEntry(apikey)),
                   clientInformation |->
                       Append(keyAcc.clientInformation, getClientInformation(apikey))]
       IN  /\ keyAcc' = acc
           /\ config' = [config EXCEPT
                           !.data.gatekeeper_keys = KeysAfterPush(@, acc, i)]
           /\ events' = Append(events, <<"createRandomKey", apikey.id>>)
           /\ pc' = IF i = Len(keyIds) THEN "processCert" ELSE "createRandomKey"
    /\ UNCHANGED << archive, keyArchive, sentinel, rendered, options, env, sessionData,
                    prompts, nPrompts, r, context, exitCode, asked, disk0 >>

\* A test that always asks for a new certificate.
ShouldRecreateCertAlways(data) == TRUE

\* A test that forgets the certificate and looks at the flag and the key.
ShouldRecreateCertKeyOnly(data) ==
    Truthy(data.gatekeeper_recreatecert) \/ data.gatekeeper_sslkey = NoPem

\* "create certs if they don't exist or we say so"
ShouldRecreateCert(data) ==
    \/ Truthy(data.gatekeeper_recreatecert)
    \/ data.gatekeeper_sslcert = NoPem
    \/ data.gatekeeper_sslkey = NoPem

\* The document once the certificate branch is entered: the flag is deleted.
DeleteRecreateCert(data) == [data EXCEPT !.gatekeeper_recreatecert = undefined]

\* The common names, and the decision to generate a certificate.
ProcessPropsCert ==
    /\ pc = "processCert"
    /\ sessionData' = [sessionData EXCEPT !.cns = "cns"]
    /\ IF ShouldRecreateCert(config.data)
       THEN /\ config' = [config EXCEPT !.data = DeleteRecreateCert(config.data)]
            /\ events' = Append(events, <<"log", "Generating gatekeeper cert">>)
            /\ pc' = "certCreate"
       ELSE /\ pc' = "writeFiles"
            /\ UNCHANGED << config, events >>
    /\ UNCHANGED << archive, keyArchive, sentinel, rendered, options, env, prompts,
                    keyAcc, nPrompts, r, context, exitCode, asked, disk0 >>

\* What cert.create may come back with: code 0, another code, or a throw.
CertResults == {"ok", "code", "throw"}

\* A branch that stores whatever came back, also after a failure.
StoreCertAlways(data, result) ==
    IF result = "ok"
    THEN [data EXCEPT !.gatekeeper_sslkey = FreshSerial(data),
                      !.gatekeeper_sslcert = FreshSerial(data)]
    ELSE [data EXCEPT !.gatekeeper_sslkey = NoPem, !.gatekeeper_sslcert = NoPem]

\* The document after cert.create came back with result.
StoreCert(data, result) ==
    IF result = "ok"
    THEN [data EXCEPT !.gatekeeper_sslkey = FreshSerial(data),
                      !.gatekeeper_sslcert = FreshSerial(data)]
    ELSE data

CertCreate(result) ==
    /\ pc = "certCreate"
    /\ config' = [config EXCEPT !.data = StoreCert(config.data, result)]
    /\ events' = Append(events, <<"certCreate", result>>)
    /\ pc' = "writeFiles"
    /\ UNCHANGED << archive, keyArchive, sentinel, rendered, options, env, sessionData,
                    prompts, keyAcc, nPrompts, r, context, exitCode, asked, disk0 >>

(* ---------------------------------------------------------------------- *)
(* writeFiles                                                              *)
(* ---------------------------------------------------------------------- *)

\* A loop that takes the paired custom property as it is, without '' as the
\* fallback.
RECURSIVE ResolvePathsNoFallback(_, _)
ResolvePathsNoFallback(data, i) ==
    IF i > Len(pathProps) THEN data
    ELSE LET pathProp == pathProps[i]
             next == IF data.paths[pathProp] = customMarker
                     THEN [data EXCEPT !.paths[pathProp] = data.customs[pathProp]]
                     ELSE data
         IN  ResolvePathsNoFallback(next, i + 1)

\* The loop over pathProps: a path property holding the marker takes the
\* value of its paired custom property, or '' when that is falsy.
RECURSIVE ResolvePaths(_, _)
ResolvePaths(data, i) ==
    IF i > Len(pathProps) THEN data
    ELSE LET pathProp == pathProps[i]
             next == IF data.paths[pathProp] = customMarker
                     THEN [data EXCEPT !.paths[pathProp] =
                              IF Truthy(data.customs[pathProp])
                              THEN data.customs[pathProp] ELSE ""]
                     ELSE data
         IN  ResolvePaths(next, i + 1)

\* The templates of all contributors, as paths name/template, in the order
\* writeFiles renders them.
RECURSIVE TemplatesFrom(_)
TemplatesFrom(i) ==
    IF i > Len(prompters) THEN <<>>
    ELSE [j \in 1..Len(prompters[i].templates) |->
            <<prompters[i].name, prompters[i].templates[j]>>]
         \o TemplatesFrom(i + 1)

Templates == TemplatesFrom(1)

\* A serialize that is handed a password property sessionData does not have.
ArchiveAfterSerializeNoPassword(file, data, password, ok) ==
    IF ok THEN Serialize(data, undefinedStr) ELSE file

\* The configuration archive after config.serialize returned ok.
ArchiveAfterSerialize(file, data, password, ok) ==
    IF ok THEN Serialize(data, password) ELSE file

\* config.serialize, then the path properties are resolved.
WriteFilesSerialize(ok) ==
    /\ pc = "writeFiles"
    /\ archive' = ArchiveAfterSerialize(archive, config.data,
                                        sessionData.configurationPassword, ok)
    /\ config' = [config EXCEPT !.data = ResolvePaths(config.data, 1)]
    /\ events' = Append(events, <<"serialize", IF ok THEN "ok" ELSE "failed">>)
    /\ pc' = IF Len(Templates) > 0 THEN "renderTemplates" ELSE "keyArchive"
    /\ UNCHANGED << keyArchive, sentinel, rendered, options, env, sessionData, prompts,
                    keyAcc, nPrompts, r, context, exitCode, asked, disk0 >>

\* The properties sessionData has at render time.  In the records of the
\* model a property the object lacks holds undefined; the credential saved
\* before the wizard is a property of every wizard run, whatever it holds.
SessionKeys(session) ==
    { k \in DOMAIN session :
        CASE k = "configurationPassword" -> session[k] # undefinedStr
          [] k = "markProperties" -> session[k] # <<>>
          [] k = "noWizard" -> TRUE
          [] k = "gatekeeper_clientkeyspassword" -> ~session.noWizard
          [] OTHER -> session[k] # undefined }

\* Object.assign({}, this.config.data, this.sessionData)
RenderContext(data, session) ==
    [ k \in DOMAIN data \cup SessionKeys(session) |->
        IF k \in SessionKeys(session) THEN session[k] ELSE data[k] ]

\* An Object.assign whose target is the document itself.
DocAfterRenderMerged(data, session) == RenderContext(data, session)

\* The document after the context was built: the target of Object.assign
\* is a new object, the document is only read.
DocAfterRender(data, session) == data

\* One awaited render of the template loop, and the write of its result.
RenderTemplate ==
    /\ pc = "renderTemplates"
    /\ context' = RenderContext(config.data, sessionData)
    /\ config' = [config EXCEPT !.data = DocAfterRender(config.data, sessionData)]
    /\ LET t == Cardinality(EventsOf("render")) + 1
       IN  /\ rendered' = rendered \cup { Templates[t] }
           /\ events' = Append(events, <<"render", Templates[t][1], Templates[t][2]>>)
           /\ pc' = IF t = Len(Templates) THEN "keyArchive" ELSE "renderTemplates"
    /\ UNCHANGED << archive, keyArchive, sentinel, options, env, sessionData,
                    prompts, keyAcc, nPrompts, r, exitCode, asked, disk0 >>

\* A test against the copy setupConfigArchive saved for getDefault.
ShouldUnlinkOtherCopy(session, data, file) ==
    session.gatekeeper_clientkeyspassword_c # data.gatekeeper_clientkeyspassword
        /\ file.exists

\* Whether writeFiles removes the client key archive: the credential of the
\* document is not the one start saved before the wizard, and the file exists.
ShouldUnlink(session, data, file) ==
    session.gatekeeper_clientkeyspassword # data.gatekeeper_clientkeyspassword
        /\ file.exists

\* The test for gatekeeper_keys.clientInformation holds in every run (the
\* document always has the lists); the old client key archive is removed
\* when the credential changed, then the new Archive object is made.
WriteFilesKeyArchive ==
    /\ pc = "keyArchive"
    /\ IF ShouldUnlink(sessionData, config.data, keyArchive)
       THEN /\ keyArchive' = NoKeyArchive
            /\ events' = Append(events, <<"unlink", keyArchiveFileName>>)
       ELSE UNCHANGED << keyArchive, events >>
    /\ pc' = "writeEntryKeys"
    /\ UNCHANGED << archive, sentinel, rendered, options, env, sessionData, config,
                    prompts, keyAcc, nPrompts, r, context, exitCode, asked, disk0 >>

\* A keys entry write whose failure ends writeFiles.
AfterWriteEntryKeysReturn(ok) == IF ok THEN "writeEntryCert" ELSE "done"

\* Where writeFiles goes on after the keys entry write: a failure is logged
\* and the certificate entry comes next either way.
AfterWriteEntryKeys(ok) == "writeEntryCert"

\* archive.writeEntry('keys.txt', clientInformation.join('\n'))
WriteEntryKeys(ok) ==
    /\ pc = "writeEntryKeys"
    /\ keyArchive' = IF ok THEN WriteEntry(keyArchive, "keys.txt") ELSE keyArchive
    /\ events' = Append(events, <<"writeEntry", "keys.txt", IF ok THEN "ok" ELSE "failed">>)
    /\ pc' = AfterWriteEntryKeys(ok)
    /\ UNCHANGED << archive, sentinel, rendered, options, env, sessionData, config,
                    prompts, keyAcc, nPrompts, r, context, exitCode, asked, disk0 >>

\* archive.writeEntry('cacert.pem', gatekeeper_sslcert), then the status
\* sentinel is written and start returns.
WriteEntryCert(ok) ==
    /\ pc = "writeEntryCert"
    /\ keyArchive' = IF ok THEN WriteEntry(keyArchive, "cacert.pem") ELSE keyArchive
    /\ events' = events \o << <<"writeEntry", "cacert.pem", IF ok THEN "ok" ELSE "failed">>,
                              <<"sentinel", "EXIT_STATUS=0">> >>
    /\ sentinel' = TRUE
    /\ pc' = "done"
    /\ exitCode' = ExitSuccess
    /\ UNCHANGED << archive, rendered, options, env, sessionData, config, prompts,
                    keyAcc, nPrompts, r, context, asked, disk0 >>

(* ---------------------------------------------------------------------- *)
(* Specification                                                           *)
(* ---------------------------------------------------------------------- *)

Next ==
    \/ \E noWizard \in BOOLEAN, cfgPassword \in EnvPasswords :
          Constructor(noWizard, cfgPassword)
    \/ Start
    \/ SetupConfigArchive
    \/ \E raw \in RawPasswordPairs : NewPasswordRound(raw[1], raw[2])
    \/ \E raw \in RawPasswords : PasswordRound(raw)
    \/ DeserializeArchive
    \/ AdminHash
    \/ SchemaCheck
    \/ \E enablehelp \in {"true", "false"} : StartWizardHelp(enablehelp)
    \/ \E props \in WizardAnswers : StartWizardPrompts(props)
    \/ ProcessPropsKeys
    \/ CreateRandomKey
    \/ ProcessPropsCert
    \/ \E result \in CertResults : CertCreate(result)
    \/ \E ok \in BOOLEAN : WriteFilesSerialize(ok)
    \/ RenderTemplate
    \/ WriteFilesKeyArchive
    \/ \E ok \in BOOLEAN : WriteEntryKeys(ok)
    \/ \E ok \in BOOLEAN : WriteEntryCert(ok)

Spec == Init /\ [][Next]_vars

(* ---------------------------------------------------------------------- *)
(* Vocabulary of the properties                                            *)
(* ---------------------------------------------------------------------- *)

\* The document the run started from.
LoadedDoc == IF disk0.archive.exists THEN disk0.archive.data ELSE EmptyDoc

Happened(kind) == EventsOf(kind) # {}

SerializedOk == \E i \in EventsOf("serialize") : events[i][2] = "ok"

DeserializedOk == \E i \in EventsOf("deserialize") : events[i][2] = "ok"

DecryptFailed == \E i \in EventsOf("deserialize") : events[i][2] = "failed"

CertFailed == CertOutcome \in {"code", "throw"}

WritePhase == {"writeFiles", "renderTemplates", "keyArchive", "writeEntryKeys",
               "writeEntryCert", "done"}

AfterSerialize == WritePhase \ {"writeFiles"}

\* The run is in unattended mode and its schema check found properties missing.
UnattendedAndMissing ==
    /\ sessionData.noWizard
    /\ Happened("schemaCheck")
    /\ Len(MissingProperties(config.validateErrors)) > 0

NothingProvisionedOrWritten ==
    /\ "enablehelp" \notin asked
    /\ prompts = <<>>
    /\ ~Happened("createRandomKey")
    /\ ~Happened("certCreate")
    /\ ~Happened("serialize")
    /\ ~Happened("render")
    /\ ~Happened("unlink")
    /\ ~Happened("writeEntry")
    /\ ~Happened("sentinel")

Range(seq) == { seq[i] : i \in 1..Len(seq) }

\* k is one complete batch: a record for each entry of keyIds, in order,
\* all of the same batch, in both lists.
IsBatch(k) ==
    /\ Len(k.configEntries) = 4
    /\ Len(k.clientInformation) = 4
    /\ \E b \in 1..MaxBatch :
          \A i \in 1..4 :
             /\ k.configEntries[i].id = <<"000", "001", "002", "003">>[i]
             /\ k.configEntries[i].key = <<b, i>>
             /\ k.clientInformation[i] =
                  << k.configEntries[i].id, <<b, i>>, k.configEntries[i].groups >>

\* Each record's groups strictly include those of the record before it.
Cumulative(k) ==
    \A i \in 2..Len(k.configEntries) :
       /\ Range(k.configEntries[i - 1].groups) \subseteq Range(k.configEntries[i].groups)
       /\ Range(k.configEntries[i - 1].groups) # Range(k.configEntries[i].groups)

(* ---------------------------------------------------------------------- *)
(* Properties                                                              *)
(* ---------------------------------------------------------------------- *)

\* C1: an unattended run whose schema check finds a required property
\* missing ends with a non-zero exit status before the wizard, before any
\* key or certificate is made and before anything is written: the
\* configuration archive is as the run found it and no sentinel exists.
C1_UnattendedFailWritesNothing ==
    UnattendedAndMissing =>
        /\ pc = "exited"
        /\ exitCode > 0
        /\ NothingProvisionedOrWritten
        /\ archive = disk0.archive
        /\ ~sentinel

\* C1 witness: such a run over an existing archive, where the run before
\* had left a sentinel.
C1_Witness ==
    /\ UnattendedAndMissing
    /\ pc = "exited"
    /\ disk0.archive.exists
    /\ disk0.sentinel

\* C2: when decryption of the existing archive fails the run stops at once:
\* no admin hash, no wizard, no keys, no certificate, nothing written.
C2_DecryptFailureStopsRun ==
    DecryptFailed =>
        /\ pc = "exited"
        /\ config.data.adminhash = undefinedStr
        /\ ~Happened("adminhash")
        /\ ~Happened("schemaCheck")
        /\ NothingProvisionedOrWritten
        /\ archive = disk0.archive
        /\ keyArchive = disk0.keyArchive
        /\ rendered = disk0.rendered
        /\ ~sentinel

\* C2 witness: a wrong password for an archive that is not corrupt.
C2_Witness ==
    /\ DecryptFailed
    /\ disk0.archive.exists
    /\ ~disk0.archive.corrupt
    /\ sessionData.configurationPassword # disk0.archive.password

\* C3: every run that ends because decryption failed ends with a non-zero
\* exit status.
C3_DecryptFailureExitsNonZero ==
    (DecryptFailed /\ pc = "exited") => exitCode # 0

\* C4: the recreate flags are one-shot: the flag is gone from the document
\* before the first key is generated (before certificate generation starts)
\* and stays gone whatever the outcome, so the document in the configuration
\* archive never holds a recreate flag that is set.
C4_RecreateFlagsOneShot ==
    /\ (pc = "createRandomKey" \/ Happened("createRandomKey"))
          => config.data.gatekeeper_recreatekeys = undefined
    /\ (pc = "certCreate" \/ Happened("certCreate"))
          => config.data.gatekeeper_recreatecert = undefined
    /\ pc \in WritePhase
          => /\ config.data.gatekeeper_recreatekeys # "true"
             /\ config.data.gatekeeper_recreatecert # "true"
    /\ archive.exists
          => /\ archive.data.gatekeeper_recreatekeys # "true"
             /\ archive.data.gatekeeper_recreatecert # "true"

\* C4 witness: a finished run that regenerated keys it already had (so the
\* flag asked for it) and wrote the archive.
C4_Witness ==
    /\ pc = "done"
    /\ SerializedOk
    /\ Happened("createRandomKey")
    /\ Len(LoadedDoc.gatekeeper_keys.configEntries) = 4
    /\ archive.data.gatekeeper_recreatekeys = undefined

\* The step of processProps that decides about the keys.
C5_KeyGateStep ==
    pc = "processProps" =>
        /\ (pc' = "createRandomKey")
              = (config.data.gatekeeper_recreatekeys = "true"
                   \/ config.data.gatekeeper_keys.configEntries = <<>>)
        /\ pc' # "createRandomKey"
              => (pc' = "processCert"
                    /\ config'.data.gatekeeper_keys = config.data.gatekeeper_keys)

\* Keys are generated nowhere but in the loop that step leads to.
C5_KeyGenOnlyInLoop ==
    Cardinality(EventsOf("createRandomKey")') > Cardinality(EventsOf("createRandomKey"))
        => pc = "createRandomKey"

\* A run that generated no keys keeps the key entries it started from.
C5_KeysKept ==
    (pc \in (WritePhase \cup {"processCert", "certCreate"}) /\ ~Happened("createRandomKey"))
        => /\ config.data.gatekeeper_keys = LoadedDoc.gatekeeper_keys
           /\ SerializedOk => archive.data.gatekeeper_keys = LoadedDoc.gatekeeper_keys

\* C5: in a run that reaches processProps the keys are regenerated if and
\* only if the recreate-keys flag is set or the key config entries are empty;
\* otherwise the config entries and the client information at the end of the
\* run are those of its start.
C5_KeyRegenerationGating ==
    [][C5_KeyGateStep /\ C5_KeyGenOnlyInLoop]_vars /\ []C5_KeysKept

\* C5 witness: a finished run over stored keys, flag unset, nothing generated.
C5_Witness ==
    /\ pc = "done"
    /\ SerializedOk
    /\ ~Happened("createRandomKey")
    /\ Len(LoadedDoc.gatekeeper_keys.configEntries) = 4
    /\ archive.data.gatekeeper_keys = LoadedDoc.gatekeeper_keys

\* The step of processProps that decides about the certificate.
C6_CertGateStep ==
    pc = "processCert" =>
        /\ (pc' = "certCreate")
              = (config.data.gatekeeper_recreatecert = "true"
                   \/ config.data.gatekeeper_sslkey = NoPem
                   \/ config.data.gatekeeper_sslcert = NoPem)
        /\ pc' # "certCreate"
              => /\ pc' = "writeFiles"
                 /\ config'.data.gatekeeper_sslkey = config.data.gatekeeper_sslkey
                 /\ config'.data.gatekeeper_sslcert = config.data.gatekeeper_sslcert

\* Generation is attempted nowhere but after that step.
C6_CertGenOnlyAfterGate ==
    Cardinality(EventsOf("certCreate")') > Cardinality(EventsOf("certCreate"))
        => pc = "certCreate"

\* A run that attempted no generation keeps the key and certificate it
\* started from.
C6_CertKept ==
    (pc \in WritePhase /\ ~Happened("certCreate"))
        => /\ config.data.gatekeeper_sslkey = LoadedDoc.gatekeeper_sslkey
           /\ config.data.gatekeeper_sslcert = LoadedDoc.gatekeeper_sslcert
           /\ SerializedOk
                => /\ archive.data.gatekeeper_sslkey = LoadedDoc.gatekeeper_sslkey
                   /\ archive.data.gatekeeper_sslcert = LoadedDoc.gatekeeper_sslcert

\* C6: in a run that reaches processProps certificate generation is
\* attempted if and only if the recreate-cert flag is set or the stored key
\* or the stored certificate is absent; otherwise nothing is attempted and
\* key and certificate are unchanged by the run.
C6_CertGenerationGating ==
    [][C6_CertGateStep /\ C6_CertGenOnlyAfterGate]_vars /\ []C6_CertKept

\* C6 witness: a finished run over a stored key and certificate, flag unset,
\* no generation attempted.
C6_Witness ==
    /\ pc = "done"
    /\ SerializedOk
    /\ ~Happened("certCreate")
    /\ LoadedDoc.gatekeeper_sslkey # NoPem
    /\ LoadedDoc.gatekeeper_sslcert # NoPem
    /\ archive.data.gatekeeper_sslcert = LoadedDoc.gatekeeper_sslcert

\* After a failed generation the stored key and certificate are the ones the
\* run started from, the flag is gone, and the run is in its write phase;
\* what it writes to the archive is that old material without the flag.
C7_FailureKeepsOldMaterial ==
    CertFailed =>
        /\ config.data.gatekeeper_sslkey = LoadedDoc.gatekeeper_sslkey
        /\ config.data.gatekeeper_sslcert = LoadedDoc.gatekeeper_sslcert
        /\ config.data.gatekeeper_recreatecert = undefined
        /\ pc \in WritePhase
        /\ SerializedOk
             => /\ archive.data.gatekeeper_sslkey = LoadedDoc.gatekeeper_sslkey
                /\ archive.data.gatekeeper_sslcert = LoadedDoc.gatekeeper_sslcert
                /\ archive.data.gatekeeper_recreatecert = undefined

\* A run that finds key and certificate and no flag does not generate.
C7_NoRetryWithoutFlag ==
    ( /\ pc = "processCert"
      /\ config.data.gatekeeper_recreatecert # "true"
      /\ config.data.gatekeeper_sslkey # NoPem
      /\ config.data.gatekeeper_sslcert # NoPem )
        => /\ pc' = "writeFiles"
           /\ ~Happened("certCreate")'
           /\ config'.data.gatekeeper_sslkey = config.data.gatekeeper_sslkey
           /\ config'.data.gatekeeper_sslcert = config.data.gatekeeper_sslcert

\* C7: when certificate generation returns a non-zero code or throws, the
\* stored key and certificate stay as they were, the run goes on to the
\* write phase and the flag is consumed; a later run without the flag that
\* finds key and certificate does not try again.
C7_CertFailureIsAbsorbed ==
    []C7_FailureKeepsOldMaterial /\ [][C7_NoRetryWithoutFlag]_vars

\* C7 witness: a finished run whose generation threw or returned a non-zero
\* code while a key and a certificate were stored, and that wrote the archive.
C7_Witness ==
    /\ CertFailed
    /\ pc = "done"
    /\ SerializedOk
    /\ LoadedDoc.gatekeeper_sslkey # NoPem
    /\ LoadedDoc.gatekeeper_sslcert # NoPem
    /\ archive.data.gatekeeper_sslcert = LoadedDoc.gatekeeper_sslcert

\* C8: key regeneration is all-or-nothing: keys are generated for 000, 001,
\* 002, 003 in that order; the key set of the document is at every moment
\* the one the run started from or one complete batch, never a mix, and so
\* is the one in the archive; in every batch each record's groups strictly
\* include those of the record before.
C8_KeyBatchAllOrNothing ==
    /\ \A i \in EventsOf("createRandomKey") :
          events[i][2] =
             <<"000", "001", "002", "003">>[
                Cardinality({ j \in EventsOf("createRandomKey") : j <= i })]
    /\ \/ config.data.gatekeeper_keys = LoadedDoc.gatekeeper_keys
       \/ /\ config.data.gatekeeper_keys = EmptyDoc.gatekeeper_keys
          /\ ~DeserializedOk
       \/ /\ IsBatch(config.data.gatekeeper_keys)
          /\ Cardinality(EventsOf("createRandomKey")) = 4
    /\ IsBatch(config.data.gatekeeper_keys) => Cumulative(config.data.gatekeeper_keys)
    /\ (archive.exists /\ ~archive.corrupt)
          => /\ IsBatch(archive.data.gatekeeper_keys)
             /\ Cumulative(archive.data.gatekeeper_keys)

\* C8 witness: a finished run that replaced a stored batch by a new one.
C8_Witness ==
    /\ pc = "done"
    /\ SerializedOk
    /\ Cardinality(EventsOf("createRandomKey")) = 4
    /\ IsBatch(LoadedDoc.gatekeeper_keys)
    /\ IsBatch(archive.data.gatekeeper_keys)
    /\ BatchOf(archive.data.gatekeeper_keys) # BatchOf(LoadedDoc.gatekeeper_keys)

\* C9: a run that gets past the schema check does not stop early and
\* serializes the configuration archive exactly once, with the password
\* resolved in this run, after keys and certificate are settled and before
\* any template is rendered or any client archive entry is written.
C9_SerializeExactlyOnce ==
    /\ Cardinality(EventsOf("serialize")) <= 1
    /\ pc \in AfterSerialize => Cardinality(EventsOf("serialize")) = 1
    /\ (Happened("schemaCheck") /\ ~UnattendedAndMissing) => pc # "exited"
    /\ \A s \in EventsOf("serialize") :
          /\ \A e \in EventsOf("createRandomKey") \cup EventsOf("certCreate") : e < s
          /\ \A e \in EventsOf("render") \cup EventsOf("unlink")
                        \cup EventsOf("writeEntry") \cup EventsOf("sentinel") : s < e
    /\ SerializedOk
          => /\ archive.exists
             /\ archive.password = sessionData.configurationPassword
             /\ archive.data.gatekeeper_keys = config.data.gatekeeper_keys
             /\ archive.data.gatekeeper_sslkey = config.data.gatekeeper_sslkey
             /\ archive.data.gatekeeper_sslcert = config.data.gatekeeper_sslcert
             /\ archive.data.adminhash = config.data.adminhash

\* C9 witness: a finished unattended run that changed no field of the
\* document and still wrote the archive.
C9_Witness ==
    /\ pc = "done"
    /\ sessionData.noWizard
    /\ SerializedOk
    /\ disk0.archive.exists
    /\ archive.data = disk0.archive.data

\* C10: when the client key archive credential of the document at write
\* time differs from the value start saved before the wizard and the client
\* key archive exists, the file is removed before any entry of the new one
\* is written.
C10_UnlinkBeforeEntries ==
    ( /\ pc \in {"writeEntryKeys", "writeEntryCert", "done"}
      /\ sessionData.gatekeeper_clientkeyspassword
            # config.data.gatekeeper_clientkeyspassword
      /\ disk0.keyArchive.exists )
        => /\ \E u \in EventsOf("unlink") : \A w \in EventsOf("writeEntry") : u < w
           /\ pc = "writeEntryKeys" => ~keyArchive.exists
           /\ keyArchive.entries =
                { events[w][2] : w \in { x \in EventsOf("writeEntry") : events[x][3] = "ok" } }

\* C10 witness: a finished wizard run that changed the credential of an
\* existing client key archive and wrote both entries of the new one.
C10_Witness ==
    /\ pc = "done"
    /\ ~sessionData.noWizard
    /\ disk0.keyArchive.exists
    /\ sessionData.gatekeeper_clientkeyspassword \in {"k1", "k2"}
    /\ config.data.gatekeeper_clientkeyspassword \in {"k1", "k2"}
    /\ sessionData.gatekeeper_clientkeyspassword
          # config.data.gatekeeper_clientkeyspassword
    /\ Happened("unlink")
    /\ keyArchive.entries = {"keys.txt", "cacert.pem"}

\* The writes of the run so far, by name, that reported failure.
FailedWrite(kind, name) ==
    \E i \in EventsOf(kind) : events[i][2] = name /\ events[i][Len(events[i])] = "failed"

SerializeFailed == \E i \in EventsOf("serialize") : events[i][2] = "failed"

EntryAttempts(name) == { i \in EventsOf("writeEntry") : events[i][2] = name }

\* C11: write failures never stop the run: after a failed serialize or a
\* failed entry write the process has not exited, a finished run has
\* rendered every template and attempted both entries whatever failed, and
\* the keys entry is always attempted before the certificate entry.
C11_WriteFailuresAbsorbed ==
    /\ (SerializeFailed \/ FailedWrite("writeEntry", "keys.txt")
            \/ FailedWrite("writeEntry", "cacert.pem"))
          => pc \in AfterSerialize
    /\ pc = "done"
          => /\ Cardinality(EventsOf("render")) = Len(Templates)
             /\ { <<events[i][2], events[i][3]>> : i \in EventsOf("render") } = Range(Templates)
             /\ Cardinality(EntryAttempts("keys.txt")) = 1
             /\ Cardinality(EntryAttempts("cacert.pem")) = 1
    /\ \A c \in EntryAttempts("cacert.pem") :
          \E k \in EntryAttempts("keys.txt") : k < c

\* C11 witness: a finished run in which the serialize and the keys entry
\* write both failed and the certificate entry was written.
C11_Witness ==
    /\ pc = "done"
    /\ SerializeFailed
    /\ FailedWrite("writeEntry", "keys.txt")
    /\ \E c \in EntryAttempts("cacert.pem") : events[c][3] = "ok"
    /\ Cardinality(EventsOf("render")) = Len(Templates)

EntryWritten(name) == \E i \in EntryAttempts(name) : events[i][3] = "ok"

\* C12: whenever the status sentinel exists at the end of a run, the
\* configuration archive write and both client key archive entry writes of
\* that run succeeded.
C12_SentinelOnlyOnFullSuccess ==
    (pc = "done" /\ sentinel)
        => /\ SerializedOk
           /\ EntryWritten("keys.txt")
           /\ EntryWritten("cacert.pem")

\* This run changed no value of the document it loaded: it decrypted the
\* archive, and it either skipped the wizard or was given the answers the
\* document already held; no recreate flag was set in the loaded document.
NothingAsked ==
    /\ DeserializedOk
    /\ Happened("schemaCheck")
    /\ sessionData.configurationPassword = disk0.archive.password
    /\ ~Truthy(LoadedDoc.gatekeeper_recreatekeys)
    /\ ~Truthy(LoadedDoc.gatekeeper_recreatecert)
    /\ \/ sessionData.noWizard
       \/ /\ config.data.enablehelp = LoadedDoc.enablehelp
          /\ \E i \in EventsOf("answers") : events[i][2] = "same"

\* The fields of a document other than the admin hash.
WithoutAdminHash(data) == [data EXCEPT !.adminhash = undefinedStr]

\* The document holds key entries, a TLS key and a TLS certificate.
HoldsKeysAndCert(data) ==
    /\ Len(data.gatekeeper_keys.configEntries) > 0
    /\ data.gatekeeper_sslkey # NoPem
    /\ data.gatekeeper_sslcert # NoPem

\* C13 as stated: a run over the archive of the run before, with the same
\* password, no recreate flag and no answer that changes a value, writes a
\* document equal to the one it loaded on every field but the admin hash.
C13_Idempotence ==
    (NothingAsked /\ SerializedOk)
        => WithoutAdminHash(archive.data) = WithoutAdminHash(LoadedDoc)

\* C13 amended: the same, for a loaded document that already holds key
\* entries, a TLS key and a TLS certificate.
C13_IdempotenceOnceProvisioned ==
    (NothingAsked /\ HoldsKeysAndCert(LoadedDoc))
        => /\ ~Happened("createRandomKey")
           /\ ~Happened("certCreate")
           /\ SerializedOk
                => /\ WithoutAdminHash(archive.data) = WithoutAdminHash(LoadedDoc)
                   /\ archive.data.gatekeeper_keys = LoadedDoc.gatekeeper_keys
                   /\ archive.data.gatekeeper_sslkey = LoadedDoc.gatekeeper_sslkey
                   /\ archive.data.gatekeeper_sslcert = LoadedDoc.gatekeeper_sslcert

\* C13 witness: a finished wizard run that was given the answers the loaded
\* document held and wrote the archive.
C13_Witness ==
    /\ pc = "done"
    /\ NothingAsked
    /\ ~sessionData.noWizard
    /\ HoldsKeysAndCert(LoadedDoc)
    /\ LoadedDoc.gatekeeper_clientkeyspassword = "k1"
    /\ SerializedOk

\* s has no blank at either end.
IsTrimmed(s) == s = undefinedStr \/ s = <<>> \/ (Head(s) # " " /\ s[Len(s)] # " ")

\* Both entries of the last round are non-empty and equal.
PairAccepted ==
    /\ r.password0 \notin {undefinedStr, <<>>}
    /\ r.password1 \notin {undefinedStr, <<>>}
    /\ r.password0 = r.password1

InNewPasswordRun == ~disk0.archive.exists /\ pc \notin {"idle", "start", "setupConfigArchive"}

\* C14: when no archive exists the entries are trimmed; the run is still
\* asking for the pair after every round whose entries are empty or differ,
\* is past the loop only after a round with two non-empty equal entries, and
\* from then on that entry is the configuration password: it is hashed into
\* the document and encrypts the archive.
C14_NewPasswordLoop ==
    InNewPasswordRun
        => /\ IsTrimmed(r.password0) /\ IsTrimmed(r.password1)
           /\ (r # NoAnswers /\ ~PairAccepted) => pc = "newPassword"
           /\ pc # "newPassword"
                => /\ PairAccepted
                   /\ "password" \notin asked
                   /\ {"password0", "password1"} \subseteq asked
                   /\ sessionData.configurationPassword = r.password0
                   /\ Happened("adminhash") => config.data.adminhash = htpasswd(r.password0)
                   /\ SerializedOk => archive.password = r.password0

\* C14 witness: a finished run that made a new archive after a round whose
\* entries differed.
C14_Witness ==
    /\ pc = "done"
    /\ ~disk0.archive.exists
    /\ \E i \in EventsOf("log") : events[i][2] = "Passwords do not match"
    /\ SerializedOk
    /\ archive.password = <<"a">>

\* C15: a run in unattended mode puts no prompt to the operator, and it
\* ends either at the schema check, with required properties missing, or
\* finished, with no wizard answer taken.
C15_UnattendedNeverPrompts ==
    options.noWizard
        => /\ asked = {}
           /\ prompts = <<>>
           /\ pc = "exited" => (UnattendedAndMissing \/ DecryptFailed)

\* C16: in a run, with or without the wizard, whose client key archive
\* credential at write time is the one the loaded document held, an existing
\* client key archive is not removed: its entries are overwritten in place.
C16_UnchangedCredentialKeepsArchive ==
    ( /\ pc \in {"writeEntryKeys", "writeEntryCert", "done"}
      /\ DeserializedOk
      /\ config.data.gatekeeper_clientkeyspassword = LoadedDoc.gatekeeper_clientkeyspassword
      /\ disk0.keyArchive.exists )
        => /\ ~Happened("unlink")
           /\ keyArchive.exists
           /\ disk0.keyArchive.entries \subseteq keyArchive.entries

\* The place in the presented list of prompt j of contributor i.
RECURSIVE PromptsBefore(_)
PromptsBefore(i) == IF i = 1 THEN 0 ELSE PromptsBefore(i - 1) + Len(prompters[i - 1].prompts)

\* The required properties the document the run started from lacks.
MissingOnLoad ==
    { RequiredProps[i] : i \in { j \in 1..Len(RequiredProps) :
                                    ~HasOwnProperty(LoadedDoc, RequiredProps[j]) } }

\* C17: in a wizard run the enable-help answer is in the document before
\* the contributors' prompts are collected; the list presented holds the
\* prompts of every contributor, contributors in registration order and
\* prompts in declared order, and nothing else; a prompt's message is the
\* contributor's, followed by the new-option marker exactly when its name
\* is a missing required property.
C17_PromptListIsConcatenation ==
    /\ pc = "wizardPrompts"
          => /\ "enablehelp" \in asked
             /\ config.data.enablehelp \in {"true", "false"}
             /\ prompts = <<>>
             /\ asked \cap UNION { Range(prompters[i].prompts) : i \in 1..Len(prompters) } = {}
    /\ prompts # <<>>
          => /\ ~sessionData.noWizard
             /\ "enablehelp" \in asked
             /\ Len(prompts) = PromptsBefore(Len(prompters) + 1)
             /\ \A i \in 1..Len(prompters) :
                   \A j \in 1..Len(prompters[i].prompts) :
                      LET p == prompts[PromptsBefore(i) + j]
                          name == prompters[i].prompts[j]
                      IN  /\ p.name = name
                          /\ p.message = IF name \in MissingOnLoad
                                         THEN <<name, " new option ">>
                                         ELSE <<name>>
    /\ (~sessionData.noWizard /\ pc \in {"processProps", "createRandomKey", "processCert",
                                           "certCreate"} \cup WritePhase)
          => prompts # <<>>

\* C17 witness: a wizard run over a document that lacks one of the required
\* properties and holds the other, past the prompts.
C17_Witness ==
    /\ pc = "processProps"
    /\ ~sessionData.noWizard
    /\ MissingOnLoad = {"gatekeeper_clientkeyspassword"}
    /\ Len(prompts) > 0

\* What the claim says a path property holding v resolves to, given the
\* value c of its paired custom property.
ResolvedPath(v, c) ==
    IF v = customMarker THEN (IF c = undefined \/ c = "" THEN "" ELSE c) ELSE v

\* The step of writeFiles that resolves the path properties.
C18_ResolveStep ==
    pc = "writeFiles"
        => /\ \A p \in PathPropSet :
                 config'.data.paths[p] =
                     ResolvedPath(config.data.paths[p], config.data.customs[p])
           /\ [config'.data EXCEPT !.paths = config.data.paths] = config.data
           /\ ~Happened("render")

\* Once a template is rendered no path property holds the marker.
C18_ResolvedBeforeRender ==
    (Happened("render") \/ pc \in AfterSerialize)
        => \A p \in PathPropSet : config.data.paths[p] # customMarker

\* C18: before any template is rendered each path property that holds the
\* custom marker takes the value of its paired custom property, or the empty
\* string when that is absent or empty; other path properties and all other
\* properties are left as they are.
C18_PathSentinelResolution ==
    [][C18_ResolveStep]_vars /\ []C18_ResolvedBeforeRender

\* C18 witness: templates were rendered from a document in which one path
\* property took its custom value and two others, one with no custom value
\* and one with an empty one, the empty string.
C18_Witness ==
    /\ Happened("render")
    /\ config.data.paths["gatekeeper_datapath"] = "/custom"
    /\ config.data.customs["proxy_datapath"] = undefined
    /\ config.data.paths["proxy_datapath"] = ""
    /\ config.data.customs["traefik_datapath"] = ""
    /\ config.data.paths["traefik_datapath"] = ""

\* C19: the path properties are resolved before the key gate, the
\* certificate gate and the writer see the document: in every run that
\* writes the configuration archive, no path property of the document in
\* the archive holds the custom marker.
C19_PersistedDocumentResolved ==
    /\ pc \in {"processProps", "createRandomKey", "processCert", "certCreate", "writeFiles"}
          => \A p \in PathPropSet : config.data.paths[p] # customMarker
    /\ SerializedOk
          => \A p \in PathPropSet : archive.data.paths[p] # customMarker

\* The names sessionData has and the document has not.
SessionOnlyNames == DOMAIN NoSession \ DOMAIN EmptyDoc

\* The step that builds the context of a template: the document is left as
\* it is; the context holds every session value under its name and, under
\* the other names, the properties of the document.
C20_RenderStep ==
    pc = "renderTemplates"
        => /\ config' = config
           /\ DOMAIN context' = DOMAIN config.data \cup SessionKeys(sessionData)
           /\ context'.configurationPassword = sessionData.configurationPassword
           /\ context'.gatekeeper_version = sessionData.gatekeeper_version
           /\ context'.noWizard = sessionData.noWizard
           /\ \A k \in DOMAIN config.data \ {"gatekeeper_clientkeyspassword"} :
                 context'[k] = config.data[k]
           /\ context'.gatekeeper_clientkeyspassword =
                 IF sessionData.noWizard THEN config.data.gatekeeper_clientkeyspassword
                 ELSE sessionData.gatekeeper_clientkeyspassword

\* Neither the document in memory nor the document in the archive has a
\* property under a name of sessionData only.
C20_NoSessionNameInDocument ==
    /\ DOMAIN config.data \cap SessionOnlyNames = {}
    /\ archive.exists => DOMAIN archive.data \cap SessionOnlyNames = {}
    /\ (sessionData.noWizard /\ SerializedOk)
          => DOMAIN archive.data = DOMAIN LoadedDoc

\* C20: session values are never written into the document: building the
\* render context leaves the document unchanged, the context being a
\* separate mapping in which a session value overrides the document
\* property of the same name; and the persisted document has no property
\* under a session-only name.
C20_SessionNeverInDocument ==
    [][C20_RenderStep]_vars /\ []C20_NoSessionNameInDocument

\* C20 witness: a template rendered in a wizard run that changed the client
\* key archive credential: the context holds the credential saved before
\* the wizard, the document the new one.
C20_Witness ==
    /\ Happened("render")
    /\ ~sessionData.noWizard
    /\ context.gatekeeper_clientkeyspassword = "k1"
    /\ config.data.gatekeeper_clientkeyspassword = "k2"
    /\ context.configurationPassword = <<"a">>
    /\ context.gatekeeper_version = "latest"

====
